---- MODULE Spec2Model ----
(***************************************************************************)
(* Model of BookDescriptionEnricher (src/test.py): the title normalizer,   *)
(* the author matcher, the auto-accept scorer and the per-row loop of      *)
(* process_books with its checkpoint writes.                               *)
(*                                                                         *)
(* Python strings are TLA+ strings (Len, \o and SubSeq work on them);      *)
(* Python lists are TLA+ sequences; a csv row dict is a function from      *)
(* column names to strings.                                                *)
(***************************************************************************)
EXTENDS Integers, Sequences, FiniteSets, TLC

VARIABLES
    csv_file,            \* the input file: [header, records], never written
    output_file,         \* the output file: [exists, header, records]
    fieldnames,          \* self.fieldnames
    rows,                \* self.rows (books is the same list object)
    pc,                  \* position of process_books
    i,                   \* loop index of `for i, book in enumerate(books, 1)`
    matches,             \* local `matches` while prompt_for_match runs on it
    k,                   \* prompt_for_match: index of the candidate presented
    response,            \* prompt_for_match: the last answer read, lowered and stripped
    updated_count,
    no_match_count,
    auto_accepted_count,
    searched,            \* row indexes search_google_books was called for
    prompted,            \* row indexes prompt_for_match was called for
    saves,               \* number of save_progress calls made so far
    call,                \* pure-function harness: the call made
    ret                  \* pure-function harness: the value returned

procVars == <<csv_file, output_file, fieldnames, rows, pc, i, matches, k, response,
              updated_count, no_match_count, auto_accepted_count,
              searched, prompted, saves>>
vars == <<csv_file, output_file, fieldnames, rows, pc, i, matches, k, response,
          updated_count, no_match_count, auto_accepted_count,
          searched, prompted, saves, call, ret>>

----------------------------------------------------------------------------
(* Python str primitives *)

Char(s, n) == SubSeq(s, n, n)

Min(S) == CHOOSE x \in S : \A y \in S : x <= y

\* str.isspace() characters that a TLA+ string literal can spell
Whitespace == {" ", "\t", "\n", "\r", "\f"}

UpperLetters == "ABCDEFGHIJKLMNOPQRSTUVWXYZ"
LowerLetters == "abcdefghijklmnopqrstuvwxyz"

LowerChar(c) ==
    IF \E n \in 1..Len(UpperLetters) : Char(UpperLetters, n) = c
    THEN Char(LowerLetters, CHOOSE n \in 1..Len(UpperLetters) : Char(UpperLetters, n) = c)
    ELSE c

\* str.lower()
RECURSIVE lower(_)
lower(s) ==
    IF s = "" THEN "" ELSE LowerChar(Char(s, 1)) \o lower(SubSeq(s, 2, Len(s)))

\* s.split(sep)[0]: the part of s before the first sep, all of s without one
SplitFirst(s, sep) ==
    LET at == {n \in 1..Len(s) : Char(s, n) = sep}
    IN  IF at = {} THEN s ELSE SubSeq(s, 1, Min(at) - 1)

\* s.split(): the maximal runs of non-whitespace characters, in order
RECURSIVE split(_)
split(s) ==
    IF s = "" THEN <<>>
    ELSE IF Char(s, 1) \in Whitespace THEN split(SubSeq(s, 2, Len(s)))
    ELSE LET ws  == {n \in 1..Len(s) : Char(s, n) \in Whitespace}
             end == IF ws = {} THEN Len(s) ELSE Min(ws) - 1
         IN  <<SubSeq(s, 1, end)>> \o split(SubSeq(s, end + 1, Len(s)))

\* ' '.join(words)
RECURSIVE join(_)
join(words) ==
    IF words = <<>> THEN ""
    ELSE IF Len(words) = 1 THEN words[1]
    ELSE words[1] \o " " \o join(Tail(words))

\* s.strip()
strip(s) ==
    LET solid == {n \in 1..Len(s) : Char(s, n) \notin Whitespace}
    IN  IF solid = {} THEN ""
        ELSE SubSeq(s, Min(solid), CHOOSE n \in solid : \A m \in solid : m <= n)

\* needle in hay
Contains(hay, needle) ==
    \E n \in 1..(Len(hay) - Len(needle) + 1) :
        SubSeq(hay, n, n + Len(needle) - 1) = needle

----------------------------------------------------------------------------
(* normalize_title *)

\* mutant: the subtitle is cut at ':' only, ';' is forgotten
normalize_title_colon_only(title) ==
    IF title = "" THEN ""
    ELSE join(split(lower(SplitFirst(title, ":"))))

normalize_title(title) ==
    IF title = "" THEN ""
    ELSE LET base_title == SplitFirst(SplitFirst(title, ":"), ";")
         IN  join(split(lower(base_title)))

----------------------------------------------------------------------------
(* authors_match *)

\* mutant: the primary authors are compared by their last word (surname)
authors_match_by_surname(authors1, authors2) ==
    IF authors1 = <<>> \/ authors2 = <<>> THEN FALSE
    ELSE LET words1 == split(lower(authors1[1]))
             words2 == split(lower(authors2[1]))
         IN  /\ words1 # <<>> /\ words2 # <<>>
             /\ words1[Len(words1)] = words2[Len(words2)]

authors_match(authors1, authors2) ==
    IF authors1 = <<>> \/ authors2 = <<>> THEN FALSE
    ELSE LET primary1 == lower(authors1[1])
             primary2 == lower(authors2[1])
         IN  Contains(primary2, primary1) \/ Contains(primary1, primary2)

----------------------------------------------------------------------------
(* difflib.SequenceMatcher(None, a, b).ratio(), without junk (isjunk is    *)
(* None and the autojunk heuristic needs len(b) >= 200)                    *)

\* length of the common run of a from ai and b from bj, inside [.., ahi) x [.., bhi)
RECURSIVE RunLen(_, _, _, _, _, _)
RunLen(a, b, ai, bj, ahi, bhi) ==
    IF ai < ahi /\ bj < bhi /\ Char(a, ai) = Char(b, bj)
    THEN 1 + RunLen(a, b, ai + 1, bj + 1, ahi, bhi)
    ELSE 0

\* find_longest_match: the longest block, earliest in a, then earliest in b
find_longest_match(a, b, alo, ahi, blo, bhi) ==
    LET starts == (alo..(ahi - 1)) \X (blo..(bhi - 1))
        run    == [p \in starts |-> RunLen(a, b, p[1], p[2], ahi, bhi)]
        best   == IF starts = {} THEN 0
                  ELSE CHOOSE n \in {run[p] : p \in starts} :
                         \A p \in starts : run[p] <= n
    IN  IF best = 0 THEN <<alo, blo, 0>>
        ELSE LET hits == {p \in starts : run[p] = best}
                 ai   == Min({p[1] : p \in hits})
                 bj   == Min({p[2] : p \in {q \in hits : q[1] = ai}})
             IN  <<ai, bj, best>>

\* sum of the sizes of get_matching_blocks(): the longest block, then the
\* same to its left and to its right
RECURSIVE MatchedChars(_, _, _, _, _, _)
MatchedChars(a, b, alo, ahi, blo, bhi) ==
    LET m == find_longest_match(a, b, alo, ahi, blo, bhi)
    IN  IF m[3] = 0 THEN 0
        ELSE m[3]
             + (IF alo < m[1] /\ blo < m[2]
                THEN MatchedChars(a, b, alo, m[1], blo, m[2]) ELSE 0)
             + (IF m[1] + m[3] < ahi /\ m[2] + m[3] < bhi
                THEN MatchedChars(a, b, m[1] + m[3], ahi, m[2] + m[3], bhi) ELSE 0)

\* ratio() = 2.0 * matches / (len(a) + len(b)), 1.0 for two empty strings,
\* kept as the fraction <<numerator, denominator>>
ratio(a, b) ==
    IF Len(a) + Len(b) = 0 THEN <<1, 1>>
    ELSE <<2 * MatchedChars(a, b, 1, Len(a) + 1, 1, Len(b) + 1), Len(a) + Len(b)>>

\* similarity > 0.9
ThresholdNum == 9
ThresholdDen == 10
AboveThreshold(r) == r[1] * ThresholdDen > ThresholdNum * r[2]

----------------------------------------------------------------------------
(* should_auto_accept *)

\* mutant: the similarity test is >= 0.9 instead of > 0.9
should_auto_accept_at_threshold(original_title, original_author, match_title, match_authors) ==
    LET norm_original == normalize_title(original_title)
        norm_match    == normalize_title(match_title)
        r             == ratio(norm_original, norm_match)
    IN  IF norm_original = norm_match THEN TRUE
        ELSE IF original_author # "" /\ match_authors # <<>>
                /\ r[1] * ThresholdDen >= ThresholdNum * r[2]
                /\ authors_match(<<original_author>>, match_authors)
             THEN TRUE
        ELSE FALSE

should_auto_accept(original_title, original_author, match_title, match_authors) ==
    LET norm_original == normalize_title(original_title)
        norm_match    == normalize_title(match_title)
    IN  IF norm_original = norm_match THEN TRUE
        ELSE IF original_author # "" /\ match_authors # <<>>
                /\ AboveThreshold(ratio(norm_original, norm_match))
                /\ authors_match(<<original_author>>, match_authors)
             THEN TRUE
        ELSE FALSE

----------------------------------------------------------------------------
(* The literal note texts of process_books *)

Placeholder ==
    "<div class=\"comment\">\n<p>This book needs an abstract or excerpt, and it doesn't have a Google Books description available to use. For a customized abstract or excerpt, add a note to the item in the \n<a href=\"github.com/{{github}}/{{BASE_URL}}\">Zotero library</a></p>\n</div>"

AttributionFooter ==
    "\n\n<div class=\"comment\">\n<p>This description was automatically added from \n<a href=\"https://books.google.com/books?id=JK8VXK7QMNAC\">Google Books</a>. \nFor a customized abstract or excerpt, add a note to the item in the \n<a href=\"github.com/{{github}}/{{BASE_URL}}\">Zotero library</a></p>\n</div>"

----------------------------------------------------------------------------
(* csv rows as dicts *)

\* the output file before the first save_progress: it does not exist
NoFile == [exists |-> FALSE, header |-> <<>>, records |-> <<>>]

Range(seq) == {seq[n] : n \in 1..Len(seq)}

\* book.get(key, default)
get(book, key, default) == IF key \in DOMAIN book THEN book[key] ELSE default

\* mutant: the assignment also writes the stripped title back into the row
SetNotes_and_title(book, text) ==
    [c \in DOMAIN book \cup {"Notes"} |->
        IF c = "Notes" THEN text
        ELSE IF c = "Title" THEN strip(book[c])
        ELSE book[c]]

\* book['Notes'] = text: the key is added when the row has none
SetNotes(book, text) ==
    [c \in DOMAIN book \cup {"Notes"} |-> IF c = "Notes" THEN text ELSE book[c]]

\* mutant: the skip test reads a key the rows never have
has_notes_wrong_key(book) == strip(get(book, "Note", "")) # ""

\* `if book.get('Notes', '').strip()`
has_notes(book) == strip(get(book, "Notes", "")) # ""

\* mutant: the description is stored without the attribution footer
accept_without_footer(book, match) == SetNotes(book, match.description)

\* book['Notes'] = match['description']; book['Notes'] += <attribution footer>
accept(book, match) == SetNotes(SetNotes(book, match.description),
                                match.description \o AttributionFooter)

\* mutant: a row without an accepted candidate keeps its Notes
reject_keeps_notes(book) == book

\* book['Notes'] = <placeholder>
reject(book) == SetNotes(book, Placeholder)

\* csv.DictReader: fieldnames is the header line, each record a dict keyed by it
read_csv(file) ==
    [n \in 1..Len(file.records) |->
        [c \in Range(file.header) |->
            file.records[n][CHOOSE m \in 1..Len(file.header) : file.header[m] = c]]]

\* save_progress: the file is opened for writing (created or truncated), the
\* header written, then the rows in order; DictWriter raises ValueError at the
\* first row with a key outside fieldnames, which the except clause catches,
\* leaving the header and the rows before that one in the file
save_progress(names, rs) ==
    LET extra == {n \in 1..Len(rs) : ~(DOMAIN rs[n] \subseteq Range(names))}
        count == IF extra = {} THEN Len(rs) ELSE Min(extra) - 1
    IN  [exists  |-> TRUE,
         header  |-> names,
         records |-> [n \in 1..count |->
                        [m \in 1..Len(names) |-> get(rs[n], names[m], "")]]]

----------------------------------------------------------------------------
(* Inputs of process_books: the csv file, the search results, the answers. *)
(* Every record has one cell per header column, the output file does not   *)
(* exist before the pass and open() on it succeeds; of a candidate only    *)
(* title, authors and description are kept (year, publisher and pageCount  *)
(* are only printed).                                                      *)

MaxRows == 2

Headers == {<<"Title", "Author", "Notes">>,
            <<"Notes", "Title", "ISBN">>,
            <<"Title", "Author", "ISBN">>}

Isbn == "9780441172719"

\* the records a file with the given header may hold: Notes empty, only
\* whitespace or filled; Author present or empty; Title present or empty
RecordsOf(header) ==
    CASE header = <<"Title", "Author", "Notes">> ->
            {<<"Dune II ", "Frank Herbert", "">>, <<"Dune II ", "", " ">>,
             <<"Dune II ", "Frank Herbert", "old">>, <<"", "Frank Herbert", "">>}
      [] header = <<"Notes", "Title", "ISBN">> ->
            {<<"", "Dune II ", Isbn>>, <<" ", "Dune II ", Isbn>>,
             <<"old", "Dune II ", Isbn>>}
      [] header = <<"Title", "Author", "ISBN">> ->
            {<<"Dune II ", "Frank Herbert", Isbn>>, <<"Dune II ", "", Isbn>>}

RECURSIVE SeqsUpTo(_, _)
SeqsUpTo(S, n) ==
    IF n = 0 THEN {<<>>}
    ELSE LET shorter == SeqsUpTo(S, n - 1)
         IN  shorter \cup {Append(q, x) : q \in shorter, x \in S}

CsvFiles ==
    UNION {{[header |-> h, records |-> rs] : rs \in SeqsUpTo(RecordsOf(h), MaxRows)} :
             h \in Headers}

\* what a search can return: a title equal after normalization, a title
\* similar above 0.9 with a second author, an unrelated book without description
Catalogue ==
    {[title |-> "dune  ii: the sequel", authors |-> <<>>, description |-> "D"],
     [title |-> "Dune III", authors |-> <<"frank herbert", "Brian Herbert">>,
      description |-> "E"],
     [title |-> "Emma", authors |-> <<"Jane Austen">>, description |-> ""]}

\* 'maxResults': 5
maxResults == 5

\* search_google_books: at most maxResults distinct candidates in ranked
\* order, [] when the response has no items or the request fails
SearchResults ==
    {r \in SeqsUpTo(Catalogue, maxResults) :
        \A m, n \in 1..Len(r) : r[m] = r[n] => m = n}

\* what the operator may type at the prompt
Answers == {" Y", "yes", "n", "Next ", "s", "skip", "x"}

\* input(...).lower().strip(), for each answer
Read == [answer \in Answers |-> strip(lower(answer))]

----------------------------------------------------------------------------
(* process_books *)

Init ==
    /\ csv_file \in CsvFiles
    /\ output_file = NoFile
    /\ fieldnames = <<>>
    /\ rows = <<>>
    /\ pc = "start"
    /\ i = 0
    /\ matches = <<>>
    /\ k = 0
    /\ response = ""
    /\ updated_count = 0
    /\ no_match_count = 0
    /\ auto_accepted_count = 0
    /\ searched = {}
    /\ prompted = {}
    /\ saves = 0
    /\ call = [fn |-> "none", args |-> <<>>]
    /\ ret = "none"

title_of(book)  == strip(get(book, "Title", ""))
author_of(book) == strip(get(book, "Author", ""))

\* books = self.read_csv(); `if not books: return`
ReadCsv ==
    /\ pc = "start"
    /\ fieldnames' = csv_file.header
    /\ rows' = read_csv(csv_file)
    /\ IF rows' = <<>> THEN pc' = "done" /\ i' = i
                       ELSE pc' = "loop" /\ i' = 1
    /\ UNCHANGED <<csv_file, output_file, matches, k, response,
                   updated_count, no_match_count, auto_accepted_count,
                   searched, prompted, saves, call, ret>>

\* the two `continue`s at the top of the loop body
SkipRow ==
    /\ pc = "loop" /\ i <= Len(rows)
    /\ has_notes(rows[i]) \/ title_of(rows[i]) = ""
    /\ i' = i + 1
    /\ UNCHANGED <<csv_file, output_file, fieldnames, rows, pc, matches, k,
                   response, updated_count, no_match_count,
                   auto_accepted_count, searched, prompted, saves, call, ret>>

\* the row reaches search_google_books
Searchable ==
    /\ pc = "loop" /\ i <= Len(rows)
    /\ ~has_notes(rows[i])
    /\ title_of(rows[i]) # ""

\* the stripped cell values a row can hold ('' for a missing column)
StrippedCells ==
    {""} \cup {strip(r[n]) : r \in UNION {RecordsOf(h) : h \in Headers}, n \in 1..3}

\* should_auto_accept for every title and author a row can hold and every
\* candidate a search can return, evaluated once
Scored ==
    [title \in StrippedCells, author \in StrippedCells, match \in Catalogue |->
        should_auto_accept(title, author, match.title, match.authors)]

\* `if self.should_auto_accept(title, author, first_match['title'], first_match['authors'])`
first_match_accepted(book, results) ==
    Scored[title_of(book), author_of(book), results[1]]

\* the search returns nothing: placeholder note, count, `continue`
SearchNoResults ==
    /\ Searchable
    /\ searched' = searched \cup {i}
    /\ rows' = [rows EXCEPT ![i] = reject(@)]
    /\ no_match_count' = no_match_count + 1
    /\ i' = i + 1
    /\ UNCHANGED <<csv_file, output_file, fieldnames, pc, matches, k, response,
                   updated_count, auto_accepted_count, prompted, saves, call, ret>>

\* the first candidate is auto-accepted; save_progress ends the iteration
SearchAutoAccept(results) ==
    /\ Searchable
    /\ results # <<>>
    /\ first_match_accepted(rows[i], results)
    /\ searched' = searched \cup {i}
    /\ rows' = [rows EXCEPT ![i] = accept(@, results[1])]
    /\ updated_count' = updated_count + 1
    /\ auto_accepted_count' = auto_accepted_count + 1
    /\ output_file' = save_progress(fieldnames, rows')
    /\ saves' = saves + 1
    /\ i' = i + 1
    /\ UNCHANGED <<csv_file, fieldnames, pc, matches, k, response,
                   no_match_count, prompted, call, ret>>

\* the first candidate is not auto-accepted: prompt_for_match presents it
SearchNeedsReview(results) ==
    /\ Searchable
    /\ results # <<>>
    /\ ~first_match_accepted(rows[i], results)
    /\ searched' = searched \cup {i}
    /\ prompted' = prompted \cup {i}
    /\ matches' = results
    /\ pc' = "prompt"
    /\ k' = 1
    /\ UNCHANGED <<csv_file, output_file, fieldnames, rows, i, response,
                   updated_count, no_match_count, auto_accepted_count,
                   saves, call, ret>>

\* prompt_for_match returns to process_books, which ends the iteration
\* with save_progress; the locals of both die with the iteration
Returned ==
    /\ output_file' = save_progress(fieldnames, rows')
    /\ saves' = saves + 1
    /\ i' = i + 1
    /\ pc' = "loop"
    /\ matches' = <<>>
    /\ k' = 0
    /\ response' = ""

\* prompt_for_match returned None: placeholder note, count
ReturnedNone ==
    /\ rows' = [rows EXCEPT ![i] = reject(@)]
    /\ no_match_count' = no_match_count + 1
    /\ UNCHANGED <<updated_count, auto_accepted_count>>
    /\ Returned

\* yes: prompt_for_match returns the candidate presented
AnswerYes(answer) ==
    /\ pc = "prompt"
    /\ Read[answer] \in {"y", "yes"}
    /\ rows' = [rows EXCEPT ![i] = accept(@, matches[k])]
    /\ updated_count' = updated_count + 1
    /\ UNCHANGED <<no_match_count, auto_accepted_count>>
    /\ Returned
    /\ UNCHANGED <<csv_file, fieldnames, searched, prompted, call, ret>>

\* next: the following candidate is presented, or none is left
AnswerNext(answer) ==
    /\ pc = "prompt"
    /\ Read[answer] \in {"n", "next"}
    /\ IF k < Len(matches)
       THEN /\ k' = k + 1
            /\ response' = Read[answer]
            /\ UNCHANGED <<output_file, rows, pc, i, matches, updated_count,
                           no_match_count, auto_accepted_count, saves>>
       ELSE ReturnedNone
    /\ UNCHANGED <<csv_file, fieldnames, searched, prompted, call, ret>>

\* skip: prompt_for_match returns None at once
AnswerSkip(answer) ==
    /\ pc = "prompt"
    /\ Read[answer] \in {"s", "skip"}
    /\ ReturnedNone
    /\ UNCHANGED <<csv_file, fieldnames, searched, prompted, call, ret>>

\* mutant: an unrecognized answer falls through to the next candidate
AnswerInvalid_advances(answer) ==
    /\ pc = "prompt"
    /\ Read[answer] \notin {"y", "yes", "n", "next", "s", "skip"}
    /\ response' = Read[answer]
    /\ k' = IF k < Len(matches) THEN k + 1 ELSE k
    /\ UNCHANGED <<csv_file, output_file, fieldnames, rows, pc, i, matches,
                   updated_count, no_match_count, auto_accepted_count,
                   searched, prompted, saves, call, ret>>

\* anything else: "Please enter y, n, or s", the same candidate is asked again
AnswerInvalid(answer) ==
    /\ pc = "prompt"
    /\ Read[answer] \notin {"y", "yes", "n", "next", "s", "skip"}
    /\ response' = Read[answer]
    /\ UNCHANGED <<csv_file, output_file, fieldnames, rows, pc, i, matches, k,
                   updated_count, no_match_count, auto_accepted_count,
                   searched, prompted, saves, call, ret>>

\* the loop is exhausted: the final summary is printed
Finish ==
    /\ pc = "loop" /\ i > Len(rows)
    /\ pc' = "done"
    /\ UNCHANGED <<csv_file, output_file, fieldnames, rows, i, matches, k,
                   response, updated_count, no_match_count,
                   auto_accepted_count, searched, prompted, saves, call, ret>>

Next ==
    \/ ReadCsv
    \/ SkipRow
    \/ SearchNoResults
    \/ \E results \in SearchResults : SearchAutoAccept(results)
    \/ \E results \in SearchResults : SearchNeedsReview(results)
    \/ \E answer \in Answers : AnswerYes(answer)
    \/ \E answer \in Answers : AnswerNext(answer)
    \/ \E answer \in Answers : AnswerSkip(answer)
    \/ \E answer \in Answers : AnswerInvalid(answer)
    \/ Finish

Spec == Init /\ [][Next]_vars

----------------------------------------------------------------------------
(* Properties of process_books, checked under Spec *)

\* the Notes of row j now, and as loaded from the input file
Notes(j) == get(rows[j], "Notes", "")
ColumnOf(c) == CHOOSE m \in 1..Len(csv_file.header) : csv_file.header[m] = c
LoadedNotes(j) ==
    IF "Notes" \in Range(csv_file.header) THEN csv_file.records[j][ColumnOf("Notes")]
    ELSE ""

counters == <<updated_count, no_match_count, auto_accepted_count>>

\* C1: every row that reaches a terminal decision (its search was made and
\* the loop moves on to the next row) is followed, before the next row is
\* examined, by a save_progress call.
C1_EveryDecisionSaved ==
    [][(i' = i + 1 /\ i \in searched') => saves' = saves + 1]_vars

\* C2 as stated: a row whose Notes is any non-empty string when loaded,
\* whitespace-only included, keeps its Notes, triggers no search and no
\* prompt, and no counter changes while it is the row at hand.
C2_NonEmptyNotesUntouched ==
    /\ [](pc # "start" =>
            \A j \in 1..Len(rows) :
                LoadedNotes(j) # "" =>
                    Notes(j) = LoadedNotes(j) /\ j \notin searched /\ j \notin prompted)
    /\ [][(pc \in {"loop", "prompt"} /\ i \in 1..Len(rows) /\ LoadedNotes(i) # "")
            => UNCHANGED counters]_vars

\* C2 amended: a row whose Notes, when loaded, is non-empty after stripping
\* whitespace keeps its Notes at every point of the pass, triggers no search
\* and no prompt, and no counter changes while it is the row at hand.
C2_FilledNotesUntouched ==
    /\ [](pc # "start" =>
            \A j \in 1..Len(rows) :
                strip(LoadedNotes(j)) # "" =>
                    Notes(j) = LoadedNotes(j) /\ j \notin searched /\ j \notin prompted)
    /\ [][(pc \in {"loop", "prompt"} /\ i \in 1..Len(rows) /\ strip(LoadedNotes(i)) # "")
            => UNCHANGED counters]_vars

\* C2 witness: the pass ended after passing a filled row and deciding another
C2_Witness ==
    /\ pc = "done"
    /\ \E j \in 1..Len(rows) : strip(LoadedNotes(j)) # ""
    /\ updated_count + no_match_count > 0

\* C3: after process_books has run over an input of N >= 1 data rows, the
\* output file exists and has exactly N data rows and the input's header
\* columns in the input's order.
C3_OutputMirrorsInput ==
    (pc = "done" /\ Len(csv_file.records) >= 1) =>
        /\ output_file.exists
        /\ output_file.header = csv_file.header
        /\ Len(output_file.records) = Len(csv_file.records)

\* C4: whenever a candidate is accepted for a row, automatically or by the
\* operator answering yes, the row's Notes becomes that candidate's
\* description followed by the attribution footer, updated_count increases by
\* one, and auto_accepted_count increases by one iff the acceptance was automatic.
C4_AcceptWritesDescription ==
    [][/\ \A results \in SearchResults :
            SearchAutoAccept(results) =>
                /\ get(rows'[i], "Notes", "") = results[1].description \o AttributionFooter
                /\ updated_count' = updated_count + 1
                /\ auto_accepted_count' = auto_accepted_count + 1
       /\ \A answer \in Answers :
            AnswerYes(answer) =>
                /\ get(rows'[i], "Notes", "") = matches[k].description \o AttributionFooter
                /\ updated_count' = updated_count + 1
                /\ auto_accepted_count' = auto_accepted_count]_vars

\* C4 witness: one row was accepted automatically and one by the operator,
\* who took the second candidate presented
C4_Witness ==
    /\ updated_count = 2
    /\ auto_accepted_count = 1
    /\ \E j \in 1..Len(rows) : j \in prompted /\ Notes(j) = "D" \o AttributionFooter

\* C5: whenever a processed row ends with no candidate accepted (no results,
\* skip, or next on every candidate), the row's Notes becomes the placeholder
\* and no candidate's description, no_match_count increases by one and
\* updated_count is unchanged.
C5_RejectWritesPlaceholder ==
    [][(\/ SearchNoResults
        \/ \E answer \in Answers : AnswerSkip(answer)
        \/ \E answer \in Answers : AnswerNext(answer) /\ k = Len(matches))
       => /\ get(rows'[i], "Notes", "") = Placeholder
          /\ \A c \in Catalogue :
                get(rows'[i], "Notes", "") \notin
                    {c.description, c.description \o AttributionFooter}
          /\ no_match_count' = no_match_count + 1
          /\ updated_count' = updated_count]_vars

\* C5 witness: one row had no results and one was given up at the prompt
C5_Witness ==
    /\ no_match_count = 2
    /\ updated_count = 0
    /\ Cardinality(prompted) = 1
    /\ \A j \in 1..Len(rows) : Notes(j) = Placeholder

\* C10: the only field of any row that ever changes is Notes: every other
\* field of every row, the number and order of rows and the column names held
\* in memory stay equal to what was loaded.
C10_OnlyNotesChanges ==
    pc # "start" =>
        /\ fieldnames = csv_file.header
        /\ Len(rows) = Len(csv_file.records)
        /\ \A j \in 1..Len(rows) :
            /\ DOMAIN rows[j] \subseteq Range(csv_file.header) \cup {"Notes"}
            /\ \A c \in Range(csv_file.header) \ {"Notes"} :
                  rows[j][c] = csv_file.records[j][ColumnOf(c)]

\* C10 witness: the pass ended with a row's Notes rewritten beside an ISBN column
C10_Witness ==
    /\ pc = "done"
    /\ \E j \in 1..Len(rows) :
        /\ "ISBN" \in DOMAIN rows[j]
        /\ Notes(j) # LoadedNotes(j)

\* C11: prompt_for_match presents the candidates one at a time in ranked
\* order: the first presented is candidate 1, candidate k + 1 is presented
\* only by a next answer to candidate k; an unrecognized answer asks again
\* for the same candidate without advancing or returning; yes returns the
\* candidate presented (its description is what process_books stores); skip
\* returns no candidate at once, presenting no later one.
C11_PromptOrder ==
    /\ [](pc = "prompt" => k \in 1..Len(matches))
    /\ [][/\ (pc # "prompt" /\ pc' = "prompt") => (k' = 1 /\ matches' \in SearchResults)
          /\ (pc = "prompt" /\ pc' = "prompt") =>
                /\ matches' = matches
                /\ \/ k' = k
                   \/ k' = k + 1 /\ response' \in {"n", "next"}
          /\ \A answer \in Answers :
                AnswerInvalid(answer) =>
                    /\ pc' = "prompt" /\ k' = k /\ matches' = matches
                    /\ rows' = rows /\ i' = i /\ saves' = saves
          /\ \A answer \in Answers :
                AnswerYes(answer) =>
                    /\ pc' = "loop" /\ i' = i + 1
                    /\ get(rows'[i], "Notes", "") = matches[k].description \o AttributionFooter
          /\ \A answer \in Answers :
                AnswerSkip(answer) =>
                    /\ pc' = "loop" /\ i' = i + 1
                    /\ get(rows'[i], "Notes", "") = Placeholder]_vars

\* C11 witness: the operator took the second candidate of the first row by
\* yes, and on the next row answered next to candidate 1 and then gave an
\* unrecognized answer to candidate 2, which is still the one presented
C11_Witness ==
    /\ pc = "prompt"
    /\ i = 2
    /\ 1 \in prompted
    /\ Notes(1) = "D" \o AttributionFooter
    /\ k = 2
    /\ response = "x"

----------------------------------------------------------------------------
(* Inputs of the pure functions *)

MaxTitleLen == 3

TitleAlphabet == {"A", "a", "b", " ", "\t", ":", ";"}

\* every string over TitleAlphabet of at most n characters
RECURSIVE StringsUpTo(_)
StringsUpTo(n) ==
    IF n = 0 THEN {""}
    ELSE LET shorter == StringsUpTo(n - 1)
         IN  shorter \cup {s \o c : s \in shorter, c \in TitleAlphabet}

NamedTitles == {"Foo: A Subtitle", "foo", " Dune  II ; x: y", "Emma"}

TitleInputs == StringsUpTo(MaxTitleLen) \cup NamedTitles

\* titles given to should_auto_accept: equal after normalization, similar
\* above 0.9 (14/15), similar at exactly 0.9 (18/20), dissimilar, empty
ScorerTitles == {"Dune II ", "dune  ii: the sequel", "Dune III", "Emma", "",
                 "abcdefghij", "abcdefghiX"}

ScorerAuthors == {"", "Frank Herbert", "Jane Smith"}

AuthorLists == {<<>>, <<"">>, <<"frank herbert">>, <<"J. Smith">>, <<"SMITH">>,
                <<"Herbert", "Jane Smith">>, <<"Jane Austen", "Frank Herbert">>}

MatcherLists == AuthorLists \cup {<<a>> : a \in ScorerAuthors}

----------------------------------------------------------------------------
(* The pure functions, each applied once to inputs drawn from the sets     *)
(* above: a run is one call and its return value                           *)

IdleProcess ==
    /\ csv_file = [header |-> <<>>, records |-> <<>>]
    /\ output_file = NoFile
    /\ fieldnames = <<>>
    /\ rows = <<>>
    /\ pc = "pure"
    /\ i = 0
    /\ matches = <<>>
    /\ k = 0
    /\ response = ""
    /\ updated_count = 0
    /\ no_match_count = 0
    /\ auto_accepted_count = 0
    /\ searched = {}
    /\ prompted = {}
    /\ saves = 0

PureInit ==
    /\ IdleProcess
    /\ call = [fn |-> "none", args |-> <<>>]
    /\ ret = "none"

CallNormalizeTitle ==
    \E title \in TitleInputs :
        /\ call.fn = "none"
        /\ call' = [fn |-> "normalize_title", args |-> <<title>>]
        /\ ret' = normalize_title(title)
        /\ UNCHANGED procVars

CallAuthorsMatch ==
    \E authors1 \in MatcherLists, authors2 \in MatcherLists :
        /\ call.fn = "none"
        /\ call' = [fn |-> "authors_match", args |-> <<authors1, authors2>>]
        /\ ret' = authors_match(authors1, authors2)
        /\ UNCHANGED procVars

CallShouldAutoAccept ==
    \E original_title \in ScorerTitles, original_author \in ScorerAuthors,
       match_title \in ScorerTitles, match_authors \in AuthorLists :
        /\ call.fn = "none"
        /\ call' = [fn |-> "should_auto_accept",
                    args |-> <<original_title, original_author, match_title, match_authors>>]
        /\ ret' = should_auto_accept(original_title, original_author,
                                     match_title, match_authors)
        /\ UNCHANGED procVars

PureNext == CallNormalizeTitle \/ CallAuthorsMatch \/ CallShouldAutoAccept

SpecPure == PureInit /\ [][PureNext]_vars

----------------------------------------------------------------------------
(* Properties of the pure functions, checked under SpecPure *)

\* a occurs in b as a contiguous block: b = pre \o a \o post
OccursIn(a, b) ==
    \E pre \in 0..Len(b), post \in 0..Len(b) :
        /\ pre + Len(a) + post = Len(b)
        /\ SubSeq(b, pre + 1, pre + Len(a)) = a

EmptyPrimary(authors) == authors = <<>> \/ authors[1] = ""

\* the part of x before its first ':' or ';'
PrefixBeforeSubtitle(x) ==
    LET clean == {n \in 0..Len(x) : \A m \in 1..n : Char(x, m) \notin {":", ";"}}
    IN  SubSeq(x, 1, CHOOSE n \in clean : \A m \in clean : m <= n)

\* s read left to right: letters lowercased, each whitespace run between two
\* words written as one space, leading and trailing whitespace dropped
RECURSIVE CollapseLower(_, _, _)
CollapseLower(s, started, pending) ==
    IF s = "" THEN ""
    ELSE LET c    == Char(s, 1)
             rest == SubSeq(s, 2, Len(s))
         IN  IF c \in Whitespace THEN CollapseLower(rest, started, started)
             ELSE (IF pending THEN " " ELSE "") \o LowerChar(c)
                  \o CollapseLower(rest, TRUE, FALSE)

\* C6: should_auto_accept returns true exactly when the normalized titles are
\* equal, or both the original author and the candidate author list are
\* non-empty, the similarity ratio of the normalized titles is strictly above
\* 0.9 and authors_match holds on the primary authors; false in every other case.
C6_AutoAcceptRule ==
    call.fn = "should_auto_accept" =>
        LET original_author == call.args[2]
            match_authors   == call.args[4]
            a == normalize_title(call.args[1])
            b == normalize_title(call.args[3])
            similar == 10 * 2 * MatchedChars(a, b, 1, Len(a) + 1, 1, Len(b) + 1)
                       > 9 * (Len(a) + Len(b))
        IN  ret = (\/ a = b
                   \/ /\ original_author # ""
                      /\ match_authors # <<>>
                      /\ similar
                      /\ authors_match(<<original_author>>, match_authors))

\* C6 witness: a candidate accepted by the similarity tier, its normalized
\* title differing from the original's
C6_Witness ==
    /\ call.fn = "should_auto_accept"
    /\ ret = TRUE
    /\ normalize_title(call.args[1]) # normalize_title(call.args[3])
    /\ call.args[2] # ""

\* C7: the author match is false whenever the primary author on either side
\* is empty (an empty list or an empty-string first author), in authors_match
\* and where should_auto_accept uses it (the normalized titles differ).
C7_EmptyPrimaryNeverMatches ==
    /\ call.fn = "authors_match" =>
          (EmptyPrimary(call.args[1]) \/ EmptyPrimary(call.args[2]) => ret = FALSE)
    /\ call.fn = "should_auto_accept" =>
          (/\ normalize_title(call.args[1]) # normalize_title(call.args[3])
           /\ (call.args[2] = "" \/ EmptyPrimary(call.args[4]))
           => ret = FALSE)

\* C8 as stated: authors_match on "Jane Smith" and "J. Smith" is true.
C8_AbbreviatedFirstNameMatches ==
    (call.fn = "authors_match" /\ call.args = <<(<<"Jane Smith">>), (<<"J. Smith">>)>>)
        => ret = TRUE

\* C8 amended: authors_match on two non-empty author lists is true exactly
\* when one lowercased primary author occurs as a contiguous block of the
\* other; on "Jane Smith" and "J. Smith" it is false.
C8_SubstringRuleRejectsAbbreviation ==
    call.fn = "authors_match" =>
        /\ (call.args[1] # <<>> /\ call.args[2] # <<>>) =>
              LET p1 == lower(call.args[1][1])
                  p2 == lower(call.args[2][1])
              IN  ret = (OccursIn(p1, p2) \/ OccursIn(p2, p1))
        /\ call.args = <<(<<"Jane Smith">>), (<<"J. Smith">>)>> => ret = FALSE

\* C8 witness: the call on "Jane Smith" and "J. Smith" returned false
C8_Witness ==
    /\ call.fn = "authors_match"
    /\ call.args = <<(<<"Jane Smith">>), (<<"J. Smith">>)>>
    /\ ret = FALSE

\* C9: normalize_title is idempotent, its result is the lowercased,
\* whitespace-collapsed, trimmed prefix of the title before its first ':' or
\* ';', and normalize_title("Foo: A Subtitle") = normalize_title("foo").
C9_NormalizeIdempotent ==
    call.fn = "normalize_title" =>
        /\ normalize_title(ret) = ret
        /\ ret = CollapseLower(PrefixBeforeSubtitle(call.args[1]), FALSE, FALSE)
        /\ call.args[1] = "Foo: A Subtitle" => ret = normalize_title("foo")

\* C9 witness: a title with mixed case, whitespace runs, ';' and ':' was normalized
C9_Witness ==
    /\ call.fn = "normalize_title"
    /\ call.args[1] = " Dune  II ; x: y"
    /\ ret = "dune ii"

====
